---- MODULE Spec2Model ----
(***************************************************************************)
(* The saved-briefings store of the AI-CTI frontend                        *)
(* (components/saved/SavedBriefingsProvider.jsx): a React provider that    *)
(* keeps the list `saved` in memory, mirrors it to localStorage, and       *)
(* reconciles optimistic toggles with the remote /api/saved collaborator.  *)
(*                                                                         *)
(* JavaScript runs each handler to completion, so a handler up to its      *)
(* first await is one action and the continuation after the await is       *)
(* another.  A render (and the passive effects it schedules) follows every *)
(* state update before the next event is handled, so the effect of lines   *)
(* 148-150 is part of the action that changed `saved`.                     *)
(***************************************************************************)
EXTENDS Integers, Sequences, FiniteSets, TLC

\* ------------------------------------------------------------- bounds
\* toggleSaved and fetchSaved calls explored in one run (the fetchSaved of
\* the mount included)
MaxCalls == 4

\* The longest collection handed to an aggregation function
MaxItems == 4

\* The source caps the list at 50 entries (slice(0, 50)).  The model scales
\* the cap down so that lists longer than the cap are reachable with
\* three links; every formula is stated in terms of Cap, not of 2.
Cap == 2

\* The links of the briefings a user toggles, and the requests that can be
\* in flight at once.
Links == {1, 2, 3}
Slots == {1, 2}
Null == "null"
Tokens == {"t1", "t2"}

\* ------------------------------------------------------------- lists
\* A saved briefing, reduced to its identity: the link.  The other fields
\* (title, source, image_url, risk_level, risk_score, saved_at) are carried
\* along unread by the store.
Entry(l) == [link |-> l]

\* Array.prototype.slice(0, n)
Take(s, n) == SubSeq(s, 1, IF Len(s) < n THEN Len(s) ELSE n)

\* prev.filter((entry) => entry.link !== l)
FilterOut(s, l) == SelectSeq(s, LAMBDA e : e.link # l)

LinksOf(s) == {s[i].link : i \in DOMAIN s}

NoDup(s) == \A i, j \in DOMAIN s : s[i].link = s[j].link => i = j

\* a || b on strings: the empty string is falsy
OrElse(a, b) == IF a = "" \/ a = Null THEN b ELSE a

VARIABLES
  phase,       \* "unmounted" | "mounted" (first commit's effects ran) | "ready"
  storageId,   \* localStorage[STORAGE_KEY]: Null or a token
  cacheStore,  \* localStorage[SAVED_CACHE_KEY]: [raw, items]
  clientId,    \* React state
  saved,       \* React state
  loading,     \* React state
  error,       \* React state
  server,      \* the server's saved list for this client, most recent first
  reqs,        \* requests in flight
  nCalls,      \* toggleSaved and fetchSaved calls so far
  run,         \* history: the current run of sequential toggles on one link
  sites,       \* the ensureClientId calls of the browsing contexts of a profile
  env,         \* the deployment of the results proxy: [version, production, urlSet]
  view,        \* a polling view (IntelDesk or Dashboard): its state and timers
  loads,       \* the requests of the view that are in flight
  aggIn,       \* the collections handed to the aggregation functions
  aggOut       \* the aggregation function last applied and what it returned

vars == <<phase, storageId, cacheStore, clientId, saved, loading, error,
          server, reqs, nCalls, run, sites, env, view, loads, aggIn, aggOut>>

\* The aggregation functions' input and output.
aggVars == <<aggIn, aggOut>>

\* The state of the saved-briefings store but for the client id in storage.
storeVars == <<phase, cacheStore, clientId, saved, loading, error, server,
               reqs, nCalls, run>>

\* The state of the polling views and of the results proxy.
deskVars == <<env, view, loads>>

\* What the actions of the saved-briefings store leave alone.
outsideStore == <<sites, deskVars, aggVars>>

\* What the ensureClientId calls of other browsing contexts leave alone.
outsideId == <<storeVars, deskVars, aggVars>>

\* What the polling views and the results proxy leave alone.
outsideDesk == <<storeVars, storageId, sites, aggVars>>

\* What the aggregation functions leave alone.
outsideAgg == <<storeVars, storageId, sites, deskVars>>

\* ------------------------------------------------------------- storage
Absent == [raw |-> "absent", items |-> <<>>]
Corrupt == [raw |-> "corrupt", items |-> <<>>]

\* Mutant: the cache write forgets the cap.
persistSavedCache_NoCap(items) == [raw |-> "array", items |-> items]

\* persistSavedCache(items): setItem(KEY, JSON.stringify(items.slice(0, 50)))
persistSavedCache(items) == [raw |-> "array", items |-> Take(items, Cap)]

\* loadSavedCache(): [] when the key is absent, unparsable or not an array
loadSavedCache(store) == IF store.raw = "array" THEN store.items ELSE <<>>

\* isSaved(link): saved.some((item) => item.link === link)
isSaved(s, l) == \E i \in DOMAIN s : s[i].link = l

\* ------------------------------------------------------------- the server
\* The /api/saved collaborator (spec section 6): listSaved returns the stored
\* entries most recent first, insertSaved is an upsert, deleteSaved is
\* idempotent.
ServerItems(srv) == [i \in DOMAIN srv |-> Entry(srv[i])]

ServerInsert(srv, l) == <<l>> \o SelectSeq(srv, LAMBDA x : x # l)

ServerDelete(srv, l) == SelectSeq(srv, LAMBDA x : x # l)

\* The lists a returning client's server set can hold at page load.
InitialServerLists == {[i \in 1..n |-> i] : n \in 0..Cardinality(Links)}

\* ------------------------------------------------------------- requests
NoLink == 0

Request(id, kind, l, previous) ==
  [id |-> id, kind |-> kind, link |-> l, previous |-> previous,
   stage |-> "sent", items |-> <<>>]

\* A request takes the lowest slot that no request in flight holds.
FreeSlots == {k \in Slots : \A r \in reqs : r.id # k}

NextId == CHOOSE k \in FreeSlots : \A j \in FreeSlots : k <= j

NoRun == [link |-> NoLink, orig |-> FALSE, n |-> 0]

\* The browsing contexts (tabs) of one profile that call ensureClientId, and
\* a context that is not calling it.
Contexts == {1, 2, 3}

IdleSite == [pc |-> "idle", value |-> Null, ret |-> Null]

NoSites == [c \in Contexts |-> IdleSite]

\* No polling view is rendered and the proxy is not in use.
NoEnv == [version |-> "none", production |-> FALSE, urlSet |-> FALSE]

NoView == [kind |-> "none", life |-> "gone", cancelled |-> FALSE,
           data |-> <<>>, loading |-> FALSE, error |-> Null,
           interval |-> FALSE, timeout |-> FALSE]

DeskIdle == env = NoEnv /\ view = NoView /\ loads = {}

\* No aggregation function has been called.
NoInput == [feeds |-> <<>>, iocs |-> <<>>, now |-> 0]

NoOutput == [fn |-> "none", value |-> <<>>, threw |-> Null]

AggIdle == aggIn = NoInput /\ aggOut = NoOutput

\* ------------------------------------------------------------- Init
Init ==
  /\ phase = "unmounted"
  /\ \/ /\ storageId = Null
        /\ cacheStore = Absent
        /\ server = <<>>
     \/ /\ storageId = "t1"
        /\ server \in InitialServerLists
        /\ cacheStore \in {Absent, Corrupt, persistSavedCache(ServerItems(server))}
  /\ clientId = Null
  /\ saved = <<>>
  /\ loading = TRUE
  /\ error = Null
  /\ reqs = {}
  /\ nCalls = 0
  /\ run = NoRun
  /\ sites = NoSites
  /\ DeskIdle
  /\ AggIdle

\* The saved-briefings store before its provider is mounted, in a profile
\* that has never saved anything.
StoreIdle ==
  /\ phase = "unmounted"
  /\ cacheStore = Absent
  /\ server = <<>>
  /\ clientId = Null
  /\ saved = <<>>
  /\ loading = TRUE
  /\ error = Null
  /\ reqs = {}
  /\ nCalls = 0
  /\ run = NoRun

\* ------------------------------------------------------------- mount
\* Mutant: a token is generated and written on every call.
ensureClientId_Rotates(stored, fresh) == <<fresh, fresh>>

\* ensureClientId(): the persisted token, or a fresh one that is persisted.
\* The result is <<returned value, storage afterwards>>.
ensureClientId(stored, fresh) ==
  IF stored = Null THEN <<fresh, fresh>> ELSE <<stored, stored>>

\* Mutant: the mount effect does not hydrate.
Hydrated_Skipped(cached, current) == current

\* lines 50-53: a non-empty cache becomes `saved`
Hydrated(cached, current) == IF Len(cached) > 0 THEN cached ELSE current

\* The effects of the first commit, in declaration order: lines 46-55
\* (identity and hydration), lines 80-83 (clientId is still null in this
\* render: return), lines 148-150 (persist the `saved` of this render, []).
Mount ==
  /\ phase = "unmounted"
  /\ \E fresh \in Tokens :
       LET r == ensureClientId(storageId, fresh)
           cached == loadSavedCache(cacheStore)
       IN /\ clientId' = r[1]
          /\ storageId' = r[2]
          /\ saved' = Hydrated(cached, saved)
          /\ loading' = IF Len(cached) > 0 THEN FALSE ELSE loading
          /\ cacheStore' = persistSavedCache(saved)
  /\ phase' = "mounted"
  /\ UNCHANGED <<error, server, reqs, nCalls, run>>
  /\ UNCHANGED outsideStore

\* fetchSaved() up to its await: lines 57-61.
FetchIssue ==
  /\ loading' = TRUE
  /\ reqs' = reqs \cup {Request(NextId, "GET", NoLink, <<>>)}
  /\ nCalls' = nCalls + 1

\* The effects of the second commit (clientId and saved have changed):
\* lines 80-83 call fetchSaved(), lines 148-150 persist `saved`.
MountCommit ==
  /\ phase = "mounted"
  /\ clientId # Null
  /\ FetchIssue
  /\ cacheStore' = persistSavedCache(saved)
  /\ phase' = "ready"
  /\ run' = NoRun
  /\ UNCHANGED <<storageId, clientId, saved, error, server>>
  /\ UNCHANGED outsideStore

\* fetchSaved() called through the context value (refresh).
FetchSaved ==
  /\ phase = "ready"
  /\ clientId # Null
  /\ nCalls < MaxCalls
  /\ FreeSlots # {}
  /\ FetchIssue
  /\ run' = NoRun
  /\ UNCHANGED <<phase, storageId, cacheStore, clientId, saved, error, server>>
  /\ UNCHANGED outsideStore

\* ------------------------------------------------------------- toggleSaved
\* Mutant: the entry is not removed before the request is issued.
OptimisticRemove_Kept(prev, l) == prev

\* lines 98-102: the optimistic removal
OptimisticRemove(prev, l) == FilterOut(prev, l)

\* Mutant: nothing is prepended before the request is issued.
OptimisticAdd_NotApplied(prev, l) == prev

\* lines 117-121: the optimistic prepend (payload first, deduplicated, capped)
OptimisticAdd(prev, l) == Take(<<Entry(l)>> \o FilterOut(prev, l), Cap)

\* Mutant: the canonical entry is prepended without removing the optimistic one.
Synced_NoDedup(prev, item) == Take(<<item>> \o prev, Cap)

\* lines 132-136: the server's canonical entry replaces the optimistic one
Synced(prev, item) == Take(<<item>> \o FilterOut(prev, item.link), Cap)

\* Mutant: the catch block leaves `saved` as it is.
RollbackTo_Current(previous, current) == current

\* lines 141-142: what the catch block restores
RollbackTo(previous, current) == previous

\* Mutant: the guard forgets item.link.
ToggleGuard_IdOnly(id, l) == id # Null

\* line 92: the guard of toggleSaved
ToggleGuard(id, l) == id # Null /\ l # NoLink

\* toggleSaved(item) when the guard of line 92 fails: nothing happens.
ToggleNoop(l) ==
  /\ ~ToggleGuard(IF phase = "ready" THEN clientId ELSE Null, l)
  /\ nCalls < MaxCalls
  /\ nCalls' = nCalls + 1
  /\ UNCHANGED <<phase, storageId, cacheStore, clientId, saved, loading, error,
                 server, reqs, run>>
  /\ UNCHANGED outsideStore

\* The run of sequential toggles on one link continues when nothing is in
\* flight and the previous step of the run was a toggle on the same link.
RunAfterToggle(l) ==
  IF reqs = {} /\ run.link = l
  THEN [run EXCEPT !.n = run.n + 1]
  ELSE IF reqs = {} THEN [link |-> l, orig |-> isSaved(saved, l), n |-> 1]
  ELSE NoRun

\* toggleSaved(item) up to its await: lines 92-105 (saved) and 92-126 (not
\* saved).  `previous` is the `saved` of the render the callback closes over.
ToggleSaved(l) ==
  /\ phase = "ready"
  /\ ToggleGuard(clientId, l)
  /\ nCalls < MaxCalls
  /\ FreeSlots # {}
  /\ LET alreadySaved == isSaved(saved, l)
         previous == saved
         next == IF alreadySaved THEN OptimisticRemove(saved, l)
                 ELSE OptimisticAdd(saved, l)
         kind == IF alreadySaved THEN "DELETE" ELSE "POST"
     IN /\ error' = Null
        /\ saved' = next
        /\ cacheStore' = persistSavedCache(next)
        /\ reqs' = reqs \cup {Request(NextId, kind, l, previous)}
        /\ nCalls' = nCalls + 1
  /\ run' = RunAfterToggle(l)
  /\ UNCHANGED <<phase, storageId, clientId, loading, server>>
  /\ UNCHANGED outsideStore

\* ------------------------------------------------------------- the network
\* The server handles a request that reached it.
ServerProcess(r) ==
  /\ r \in reqs
  /\ r.stage = "sent"
  /\ server' = CASE r.kind = "POST" -> ServerInsert(server, r.link)
                 [] r.kind = "DELETE" -> ServerDelete(server, r.link)
                 [] OTHER -> server
  /\ reqs' = (reqs \ {r}) \cup
             {[r EXCEPT !.stage = "processed",
                        !.items = IF r.kind = "GET" THEN ServerItems(server)
                                  ELSE <<>>]}
  /\ UNCHANGED <<phase, storageId, cacheStore, clientId, saved, loading, error,
                 nCalls, run>>
  /\ UNCHANGED outsideStore

\* How a request can settle at the client.
\*   "ok"       the server handled it and answered 2xx with the usual body
\*   "okEmpty"  2xx with a body that lacks the item / items field and error
\*   "non2xx"   the server refused it, answering non-2xx with {error: ...}
\*   "badBody"  the body is not JSON: res.json() rejects
\*   "reject"   fetch rejects (the request or the response is lost)
AllOutcomes == {"ok", "okEmpty", "non2xx", "badBody", "reject"}

Outcomes(r) ==
  LET all == IF r.stage = "processed"
             THEN {"ok", "okEmpty", "badBody", "reject"}
             ELSE {"non2xx", "reject"}
  IN IF r.kind = "DELETE" THEN all \ {"okEmpty", "badBody"} ELSE all

ErrMessage(outcome) ==
  CASE outcome = "reject" -> "Failed to fetch"
    [] outcome = "badBody" -> "Unexpected token"
    [] outcome = "non2xx" -> "Backend error"
    [] OTHER -> ""

Rejects == {"reject"}

\* The outcomes that make the continuation of the POST branch throw:
\* fetch rejects (line 122), !res.ok (lines 127-129), res.json() rejects
\* (line 130).
InsertThrows(outcome) == outcome \in Rejects \cup {"non2xx", "badBody"}

\* The outcomes that make the continuation of the DELETE branch throw: only
\* a rejected fetch; the response is not looked at (lines 103-105).
DeleteThrows(outcome) == outcome \in Rejects

\* The outcomes that take fetchSaved to its catch block: fetch or res.json()
\* rejects (lines 61-62).
FetchThrows(outcome) == outcome \in Rejects \cup {"badBody"}

\* line 140: err.message || 'Failed to update saved briefing.' where the
\* error thrown at line 128 carries 'Failed to save briefing'
ToggleError(outcome) ==
  IF outcome = "non2xx" THEN "Failed to save briefing"
  ELSE OrElse(ErrMessage(outcome), "Failed to update saved briefing.")

\* lines 139-143: the catch block of toggleSaved
Rollback(r, outcome) ==
  /\ error' = ToggleError(outcome)
  /\ saved' = RollbackTo(r.previous, saved)
  /\ cacheStore' = persistSavedCache(saved')

\* The continuation of toggleSaved after the POST settles: lines 122-143.
SettleInsert(r, outcome) ==
  /\ r \in reqs /\ r.kind = "POST"
  /\ outcome \in Outcomes(r)
  /\ IF InsertThrows(outcome) THEN Rollback(r, outcome)
     ELSE IF outcome = "ok"
     THEN /\ saved' = Synced(saved, Entry(r.link))
          /\ cacheStore' = persistSavedCache(saved')
          /\ UNCHANGED error
     ELSE UNCHANGED <<saved, cacheStore, error>>
  /\ reqs' = reqs \ {r}
  /\ run' = IF InsertThrows(outcome) THEN NoRun ELSE run
  /\ UNCHANGED <<phase, storageId, clientId, loading, server, nCalls>>
  /\ UNCHANGED outsideStore

\* The continuation of toggleSaved after the DELETE settles: lines 103-105
\* and 139-143.
SettleDelete(r, outcome) ==
  /\ r \in reqs /\ r.kind = "DELETE"
  /\ outcome \in Outcomes(r)
  /\ IF DeleteThrows(outcome) THEN Rollback(r, outcome)
     ELSE UNCHANGED <<saved, cacheStore, error>>
  /\ reqs' = reqs \ {r}
  /\ run' = IF outcome = "ok" THEN run ELSE NoRun
  /\ UNCHANGED <<phase, storageId, clientId, loading, server, nCalls>>
  /\ UNCHANGED outsideStore

\* lines 63-69 and 73-74: what fetchSaved leaves in `saved`
FetchResult(r, outcome, current, store) ==
  IF outcome = "ok" THEN r.items
  ELSE IF Len(loadSavedCache(store)) > 0 THEN loadSavedCache(store)
  ELSE current

\* lines 70 and 72: what fetchSaved leaves in `error`
FetchError(outcome) ==
  IF FetchThrows(outcome)
  THEN OrElse(ErrMessage(outcome), "Failed to load saved briefings.")
  ELSE OrElse(ErrMessage(outcome), Null)

\* The continuation of fetchSaved after its await: lines 62-77, and the
\* effect of lines 148-150 when setSaved was called.
SettleFetch(r, outcome) ==
  /\ r \in reqs /\ r.kind = "GET"
  /\ outcome \in Outcomes(r)
  /\ saved' = FetchResult(r, outcome, saved, cacheStore)
  /\ cacheStore' = IF outcome = "ok" \/ Len(loadSavedCache(cacheStore)) > 0
                   THEN persistSavedCache(saved')
                   ELSE cacheStore
  /\ error' = FetchError(outcome)
  /\ loading' = FALSE
  /\ reqs' = reqs \ {r}
  /\ run' = NoRun
  /\ UNCHANGED <<phase, storageId, clientId, server, nCalls>>
  /\ UNCHANGED outsideStore

Next ==
  \/ Mount
  \/ MountCommit
  \/ FetchSaved
  \/ \E l \in Links \cup {NoLink} : ToggleNoop(l)
  \/ \E l \in Links \cup {NoLink} : ToggleSaved(l)
  \/ \E r \in reqs : ServerProcess(r)
  \/ \E r \in reqs, o \in AllOutcomes : SettleInsert(r, o)
  \/ \E r \in reqs, o \in AllOutcomes : SettleDelete(r, o)
  \/ \E r \in reqs, o \in AllOutcomes : SettleFetch(r, o)

Spec == Init /\ [][Next]_vars

\* ------------------------------------------------------------- client id
\* ensureClientId() as the browsing contexts of one profile run it.  Within a
\* context the call runs to completion; localStorage is shared by the
\* contexts without a lock, so between the getItem of one context and its
\* setItem another context can read or write the key.

\* lines 10-11: let value = localStorage.getItem(STORAGE_KEY)
IdRead(c) ==
  /\ sites[c].pc = "idle"
  /\ sites' = [sites EXCEPT ![c] = [pc |-> "read", value |-> storageId,
                                    ret |-> Null]]
  /\ UNCHANGED storageId
  /\ UNCHANGED outsideId

\* lines 12-16: generate and persist when nothing was read; return the value
IdReturn(c) ==
  /\ sites[c].pc = "read"
  /\ \E fresh \in Tokens :
       LET r == ensureClientId(sites[c].value, fresh)
       IN /\ sites' = [sites EXCEPT ![c].pc = "done", ![c].ret = r[1]]
          /\ storageId' = IF r[1] = sites[c].value THEN storageId ELSE r[2]
  /\ UNCHANGED outsideId

\* The context is loaded again: its next call.
IdAgain(c) ==
  /\ sites[c].pc = "done"
  /\ sites' = [sites EXCEPT ![c] = IdleSite]
  /\ UNCHANGED storageId
  /\ UNCHANGED outsideId

IdInit ==
  /\ StoreIdle
  /\ DeskIdle
  /\ AggIdle
  /\ storageId \in {Null} \cup Tokens
  /\ sites = NoSites

IdNext ==
  \/ \E c \in Contexts : IdRead(c)
  \/ \E c \in Contexts : IdReturn(c)
  \/ \E c \in Contexts : IdAgain(c)

IdSpec == IdInit /\ [][IdNext]_vars

\* ------------------------------------------------------------- results proxy
\* GET /api/results (app/api/results/route.js, and its earlier version
\* part_003): forwards to the backend's /results and answers.

\* The batches the backend can hold, and its payload for one of them.
Batches == {1, 2}

Batch(k) == [feeds |-> <<k>>, iocs |-> <<k>>, clusters |-> <<k>>, error |-> Null]

\* route.js lines 56-61: the empty payload that carries an error
EmptyPayload(msg) ==
  [feeds |-> <<>>, iocs |-> <<>>, clusters |-> <<>>, error |-> msg]

Response(status, body) == [status |-> status, body |-> body]

\* How the backend can treat the proxy's request.
BackendOutcomes == {"ok", "non2xx", "unreachable", "timeout", "badBody"}

\* What the try block of the proxy throws: the Error of line 41 for a
\* non-2xx answer, the rejection of fetch, the abort of line 26 (route.js
\* only; part_003 waits for the runtime to give up), the rejection of
\* res.json().
Thrown(version, outcome) ==
  CASE outcome = "non2xx" ->
         [name |-> "Error", message |-> "Backend returned 500"]
    [] outcome = "timeout" /\ version = "route" ->
         [name |-> "AbortError", message |-> "This operation was aborted"]
    [] outcome = "badBody" ->
         [name |-> "SyntaxError", message |-> "Unexpected token"]
    [] OTHER -> [name |-> "TypeError", message |-> "fetch failed"]

\* Mutant: the catch block answers with a gateway error.
ProxyCatch_BadGateway(version, err) == Response(502, EmptyPayload(err.message))

\* route.js lines 49-65 and part_003 lines 25-37: the catch block
ProxyCatch(version, err) ==
  IF version = "route"
  THEN Response(200, EmptyPayload(
         IF err.name = "AbortError"
         THEN "Backend is taking too long to respond."
         ELSE OrElse(err.message, "Failed to connect to backend")))
  ELSE Response(200, EmptyPayload(err.message))

\* route.js lines 5-66 and part_003 lines 5-38: the whole handler, given how
\* the backend treats the request and the batch it holds
ProxyGET(e, outcome, k) ==
  IF e.version = "route" /\ ~e.urlSet /\ e.production
  THEN Response(200, EmptyPayload("Backend URL not configured."))
  ELSE IF outcome = "ok" THEN Response(200, Batch(k))
  ELSE ProxyCatch(e.version, Thrown(e.version, outcome))

\* Whether the handler gets as far as calling the backend.
CallsBackend(e) == ~(e.version = "route" /\ ~e.urlSet /\ e.production)

Envs ==
  [version : {"route", "part_003"}, production : BOOLEAN, urlSet : BOOLEAN]

\* ------------------------------------------------------------- polling views
\* IntelDesk (part_000 lines 44-73) and Dashboard (dashboard/page.jsx lines
\* 183-249) load /api/results at mount and on a five-minute interval.

\* part_000 lines 45-47 and page.jsx lines 184-186: the useState initials
InitialView(kind) ==
  [kind |-> kind, life |-> "new", cancelled |-> FALSE,
   data |-> IF kind = "IntelDesk" THEN [feeds |-> <<>>, iocs |-> <<>>]
            ELSE [feeds |-> <<>>, iocs |-> <<>>, clusters |-> <<>>],
   loading |-> (kind = "IntelDesk"), error |-> Null,
   interval |-> FALSE, timeout |-> FALSE]

\* React drops the state updates of a component that is no longer mounted.
Commit(v, next) ==
  IF v.life = "alive"
  THEN [v EXCEPT !.data = next.data, !.loading = next.loading,
                 !.error = next.error]
  ELSE v

LoadSlots == {1, 2}

FreeLoadSlots == {k \in LoadSlots : \A r \in loads : r.id # k}

NextLoadId == CHOOSE k \in FreeLoadSlots : \A j \in FreeLoadSlots : k <= j

NoResponse == Response(0, EmptyPayload(Null))

Load(id, kind, silent) ==
  [id |-> id, kind |-> kind, silent |-> silent, stage |-> "sent",
   backend |-> "none", resp |-> NoResponse]

\* load() up to its await: part_000 lines 52-54 (setLoading(true)) and
\* page.jsx lines 190-194 (setLoading(true) unless silent, setError(null)).
LoadStart(v, silent) ==
  IF v.kind = "IntelDesk" THEN [v EXCEPT !.loading = TRUE]
  ELSE [v EXCEPT !.loading = IF silent THEN v.loading ELSE TRUE,
                 !.error = Null]

\* The mount effect: part_000 lines 49-68, page.jsx lines 245-247.
ViewMount ==
  /\ view.life = "new"
  /\ LET v == [view EXCEPT !.life = "alive", !.interval = TRUE]
     IN view' = Commit(v, LoadStart(v, FALSE))
  /\ loads' = loads \cup {Load(NextLoadId, "results", FALSE)}
  /\ UNCHANGED env
  /\ UNCHANGED outsideDesk

\* The interval fires: part_000 line 68 (load), page.jsx line 247
\* (load({ silent: true })).
IntervalTick ==
  /\ view.interval
  /\ FreeLoadSlots # {}
  /\ view' = Commit(view, LoadStart(view, view.kind = "Dashboard"))
  /\ loads' = loads \cup {Load(NextLoadId, "results", view.kind = "Dashboard")}
  /\ UNCHANGED env
  /\ UNCHANGED outsideDesk

\* The Refresh button of the Dashboard: page.jsx line 322, load().
ClickRefresh ==
  /\ view.kind = "Dashboard" /\ view.life = "alive" /\ ~view.loading
  /\ FreeLoadSlots # {}
  /\ view' = Commit(view, LoadStart(view, FALSE))
  /\ loads' = loads \cup {Load(NextLoadId, "results", FALSE)}
  /\ UNCHANGED env
  /\ UNCHANGED outsideDesk

\* The Fetch latest button of the Dashboard: fetchLatest up to its await,
\* page.jsx lines 228-232.
ClickFetchLatest ==
  /\ view.kind = "Dashboard" /\ view.life = "alive" /\ ~view.loading
  /\ FreeLoadSlots # {}
  /\ view' = Commit(view, [view EXCEPT !.loading = TRUE])
  /\ loads' = loads \cup {Load(NextLoadId, "trigger", FALSE)}
  /\ UNCHANGED env
  /\ UNCHANGED outsideDesk

\* The continuation of fetchLatest: page.jsx lines 233-242.  The timeout of
\* line 236 is set whether or not the view is still mounted.
TriggerSettle(r, ok) ==
  /\ r \in loads /\ r.kind = "trigger"
  /\ LET v == [view EXCEPT !.timeout = IF ok THEN TRUE ELSE view.timeout]
     IN view' = Commit(v, [v EXCEPT !.error = IF ok THEN v.error
                                              ELSE "Fetch trigger failed",
                                    !.loading = FALSE])
  /\ loads' = loads \ {r}
  /\ UNCHANGED env
  /\ UNCHANGED outsideDesk

\* The timeout of fetchLatest fires: page.jsx line 236, load({ silent: true }).
TimeoutFire ==
  /\ view.timeout
  /\ FreeLoadSlots # {}
  /\ LET v == [view EXCEPT !.timeout = FALSE]
     IN view' = Commit(v, LoadStart(v, TRUE))
  /\ loads' = loads \cup {Load(NextLoadId, "results", TRUE)}
  /\ UNCHANGED env
  /\ UNCHANGED outsideDesk

\* The proxy handles a load that reached it.
ProxyHandle(r, outcome, k) ==
  /\ r \in loads /\ r.kind = "results" /\ r.stage = "sent"
  /\ loads' = (loads \ {r}) \cup
              {[r EXCEPT !.stage = "answered",
                         !.backend = IF CallsBackend(env) THEN outcome
                                     ELSE "none",
                         !.resp = ProxyGET(env, outcome, k)]}
  /\ UNCHANGED <<env, view>>
  /\ UNCHANGED outsideDesk

\* How the fetch of a load can end at the view: with the proxy's response,
\* with a non-2xx answer of the hosting platform, or rejected.
LoadEnds == {"response", "non2xx", "reject"}

LoadFailure(how) ==
  IF how = "non2xx" THEN "API returned 500" ELSE "Failed to fetch"

\* The continuation of IntelDesk's load: part_000 lines 55-64.
IntelDeskSettle(v, r, how) ==
  IF v.cancelled THEN v
  ELSE IF how = "response" /\ r.resp.status = 200
  THEN [v EXCEPT !.data = r.resp.body, !.loading = FALSE]
  ELSE [v EXCEPT !.error = OrElse(LoadFailure(how), "Failed to pull intel data."),
                 !.loading = FALSE]

\* The continuation of the Dashboard's load: page.jsx lines 200-223.
DashboardSettle(v, r, how) ==
  LET done == IF r.silent THEN v.loading ELSE FALSE
  IN IF how = "response" /\ r.resp.status = 200
     THEN [v EXCEPT !.error = IF r.resp.body.error \notin {Null, ""}
                               THEN r.resp.body.error ELSE v.error,
                    !.data = r.resp.body,
                    !.loading = done]
     ELSE [v EXCEPT !.error = OrElse(LoadFailure(how), "Failed to load data."),
                    !.loading = done]

LoadSettle(r, how) ==
  /\ r \in loads /\ r.kind = "results"
  /\ how = "response" => r.stage = "answered"
  /\ view' = Commit(view, IF view.kind = "IntelDesk"
                          THEN IntelDeskSettle(view, r, how)
                          ELSE DashboardSettle(view, r, how))
  /\ loads' = loads \ {r}
  /\ UNCHANGED env
  /\ UNCHANGED outsideDesk

\* The cleanup of the mount effect: part_000 lines 69-72 (cancelled = true,
\* clearInterval), page.jsx line 248 (clearInterval).
Teardown ==
  /\ view.life = "alive"
  /\ view' = [view EXCEPT !.life = "gone", !.interval = FALSE,
                          !.cancelled = (view.kind = "IntelDesk")]
  /\ UNCHANGED <<env, loads>>
  /\ UNCHANGED outsideDesk

DeskInit ==
  /\ StoreIdle
  /\ AggIdle
  /\ storageId = Null
  /\ sites = NoSites
  /\ env \in Envs
  /\ view \in {InitialView(k) : k \in {"IntelDesk", "Dashboard"}}
  /\ loads = {}

DeskNext ==
  \/ ViewMount
  \/ IntervalTick
  \/ ClickRefresh
  \/ ClickFetchLatest
  \/ \E r \in loads, ok \in BOOLEAN : TriggerSettle(r, ok)
  \/ TimeoutFire
  \/ \E r \in loads, o \in BackendOutcomes, k \in Batches : ProxyHandle(r, o, k)
  \/ \E r \in loads, how \in LoadEnds : LoadSettle(r, how)
  \/ Teardown

DeskSpec == DeskInit /\ [][DeskNext]_vars

\* ------------------------------------------------------------- aggregation
\* The pure functions of the IntelDesk view (part_000 lines 6-42) and of the
\* sidebar (components/ui/RightSidebar.jsx lines 178-214).  Both are handed
\* the feeds and IOCs of one /results payload.

\* A call that returned, and a call that threw.
Returned(fn, value) == [fn |-> fn, value |-> value, threw |-> Null]

Threw(fn, err) == [fn |-> fn, value |-> <<>>, threw |-> err]

\* item?.risk when the item has none
NoRisk == [kind |-> "undefined", level |-> Null]

\* item?.title when the item has none
NoText == [kind |-> "undefined", chars |-> <<>>]

\* A feed item none of whose fields is set (a null item reads the same
\* through item?.field).
Blank ==
  [source |-> Null, published_at |-> Null, fetched_at |-> Null,
   title |-> NoText, description |-> NoText, risk |-> NoRisk]

\* A field value that is not a string: the number 7.
Seven == "7 (number)"

NotStrings == {Seven}

\* The values a feed item's `source` and an IOC's `type` take; Null is a
\* missing field.
Sources == {"ThreatPost", "threatpost", "CSO", "Krebs", Null, Seven}

Types == {"IP", "ip", "CVE", "Domain", "hash", "url", Null, Seven}

\* String.prototype.toLowerCase on the strings in use
Lower(str) ==
  CASE str = "ThreatPost" -> "threatpost"
    [] str = "CSO" -> "cso"
    [] str = "Krebs" -> "krebs"
    [] str = "Unknown" -> "unknown"
    [] str = "IP" -> "ip"
    [] str = "CVE" -> "cve"
    [] str = "Domain" -> "domain"
    [] OTHER -> str

\* The sequences over S of length at most n
SeqsUpTo(S, n) == UNION {[1..k -> S] : k \in 0..n}

\* Mutant: sources are bucketed as written.
SourceKey_CaseSensitive(item) == OrElse(item.source, "Unknown")

\* part_000 line 9: (item?.source || 'Unknown').toLowerCase()
SourceKey(item) == Lower(OrElse(item.source, "Unknown"))

\* part_000 line 9: a truthy source that has no toLowerCase method makes the
\* call throw a TypeError
SourceThrows(item) == OrElse(item.source, "Unknown") \in NotStrings

\* part_000 line 35: the same for the type of an IOC
TypeThrows(ioc) == OrElse(ioc.type, "other") \in NotStrings

\* RightSidebar.jsx line 198: item?.type?.toLowerCase() guards against a
\* missing type, not against a type without the method
SummaryThrows(ioc) == ioc.type \in NotStrings

\* Mutant: types are bucketed as written.
TypeKey_CaseSensitive(ioc) == OrElse(ioc.type, "other")

\* part_000 line 35: (ioc?.type || 'other').toLowerCase()
TypeKey(ioc) == Lower(OrElse(ioc.type, "other"))

\* bucket.set(key, (bucket.get(key) || 0) + 1) on a Map, kept as its entries
\* in insertion order
Bump(bucket, key) ==
  IF \E i \in DOMAIN bucket : bucket[i].name = key
  THEN [i \in DOMAIN bucket |->
          IF bucket[i].name = key
          THEN [bucket[i] EXCEPT !.count = bucket[i].count + 1]
          ELSE bucket[i]]
  ELSE Append(bucket, [name |-> key, count |-> 1])

\* bucket.get(name) || 0
CountIn(bucket, name) ==
  IF \E i \in DOMAIN bucket : bucket[i].name = name
  THEN (CHOOSE e \in {bucket[i] : i \in DOMAIN bucket} : e.name = name).count
  ELSE 0

\* Array.prototype.sort((a, b) => b.count - a.count): stable, so an entry
\* goes behind the entries that count at least as much
InsertByCount(sorted, e) ==
  SelectSeq(sorted, LAMBDA x : x.count >= e.count) \o <<e>>
    \o SelectSeq(sorted, LAMBDA x : x.count < e.count)

RECURSIVE SortByCount(_)
SortByCount(entries) ==
  IF entries = <<>> THEN <<>>
  ELSE InsertByCount(SortByCount(SubSeq(entries, 1, Len(entries) - 1)),
                     entries[Len(entries)])

\* part_000 lines 7-11: the forEach that fills the bucket
RECURSIVE TallySources(_)
TallySources(feeds) ==
  IF feeds = <<>> THEN <<>>
  ELSE Bump(TallySources(SubSeq(feeds, 1, Len(feeds) - 1)),
            SourceKey(feeds[Len(feeds)]))

\* part_000 lines 33-37
RECURSIVE TallyTypes(_)
TallyTypes(iocs) ==
  IF iocs = <<>> THEN <<>>
  ELSE Bump(TallyTypes(SubSeq(iocs, 1, Len(iocs) - 1)),
            TypeKey(iocs[Len(iocs)]))

\* The source keeps the 8 busiest sources (slice(0, 8)); the model scales
\* that down so that inputs with more sources than are kept are reachable.
TopSources == 2

\* part_000 lines 6-16, when no item makes it throw
groupBySource(feeds) == Take(SortByCount(TallySources(feeds)), TopSources)

\* part_000 line 38: the fixed names of the heatmap
HeatmapNames == <<"domain", "ip", "cve", "hash">>

\* part_000 lines 32-42, when no IOC makes it throw
calcIocHeatmap(iocs) ==
  [i \in DOMAIN HeatmapNames |->
     [name |-> HeatmapNames[i], count |-> CountIn(TallyTypes(iocs), HeatmapNames[i])]]

\* The date strings in use, with the UTC calendar day (of March 2024) of
\* the instant each denotes; the rest do not parse.
InvalidDate == 0 - 1

\* new Date(str).toISOString().slice(0, 10), as the day of "2024-03-dd"
UtcDay(str) ==
  CASE str = "2024-03-01T10:00:00Z" -> 1
    [] str = "2024-03-01T23:30:00-05:00" -> 2
    [] str = "2024-03-02" -> 2
    [] str = "2024-03-03T00:00:00Z" -> 3
    [] str = "2024-03-04T08:00:00+09:00" -> 3
    [] OTHER -> InvalidDate

\* The days Date.now() can fall on.
Todays == {3, 4}

\* part_000 line 21: item?.published_at || item?.fetched_at || Date.now()
DateArg(item) == OrElse(item.published_at, OrElse(item.fetched_at, Null))

\* Mutant: fetched_at is preferred to published_at.
DayKey_FetchedFirst(item, now) ==
  LET v == OrElse(item.fetched_at, OrElse(item.published_at, Null))
  IN IF v = Null THEN now ELSE UtcDay(v)

\* part_000 lines 21-23: the key of an item
DayKey(item, now) ==
  IF DateArg(item) = Null THEN now ELSE UtcDay(DateArg(item))

\* part_000 line 22: toISOString() throws a RangeError on an Invalid Date
DateThrows(item) ==
  DateArg(item) # Null /\ UtcDay(DateArg(item)) = InvalidDate

\* part_000 lines 20-25
RECURSIVE TallyDays(_, _)
TallyDays(feeds, now) ==
  IF feeds = <<>> THEN <<>>
  ELSE Bump(TallyDays(SubSeq(feeds, 1, Len(feeds) - 1), now),
            DayKey(feeds[Len(feeds)], now))

\* part_000 line 28: .sort((a, b) => (a.date > b.date ? -1 : 1)) on entries
\* whose dates differ
InsertByDate(sorted, e) ==
  SelectSeq(sorted, LAMBDA x : x.date > e.date) \o <<e>>
    \o SelectSeq(sorted, LAMBDA x : ~(x.date > e.date))

RECURSIVE SortByDate(_)
SortByDate(entries) ==
  IF entries = <<>> THEN <<>>
  ELSE InsertByDate(SortByDate(SubSeq(entries, 1, Len(entries) - 1)),
                    entries[Len(entries)])

\* The source keeps the 10 most recent days (slice(0, 10)); the model scales
\* that down so that inputs with more days than are kept are reachable.
TopDays == 2

\* part_000 lines 18-30, when no item makes it throw
groupByDate(feeds, now) ==
  LET b == TallyDays(feeds, now)
  IN Take(SortByDate([i \in DOMAIN b |->
                        [date |-> b[i].name, count |-> b[i].count]]),
          TopDays)

\* A behaviour is one call: the function is applied to the input drawn in
\* the initial state.
ApplyGroupBySource ==
  /\ aggOut = NoOutput
  /\ aggOut' = IF \E i \in DOMAIN aggIn.feeds : SourceThrows(aggIn.feeds[i])
               THEN Threw("groupBySource", "TypeError")
               ELSE Returned("groupBySource", groupBySource(aggIn.feeds))
  /\ UNCHANGED aggIn
  /\ UNCHANGED outsideAgg

ApplyCalcIocHeatmap ==
  /\ aggOut = NoOutput
  /\ aggOut' = IF \E i \in DOMAIN aggIn.iocs : TypeThrows(aggIn.iocs[i])
               THEN Threw("calcIocHeatmap", "TypeError")
               ELSE Returned("calcIocHeatmap", calcIocHeatmap(aggIn.iocs))
  /\ UNCHANGED aggIn
  /\ UNCHANGED outsideAgg

\* RightSidebar.jsx line 198: item?.type?.toLowerCase()
SummaryKey(ioc) == IF ioc.type = Null THEN Null ELSE Lower(ioc.type)

\* RightSidebar.jsx line 203: the accumulator reduce starts from
SummaryStart == [k \in {"ip", "domain", "cve"} |-> 0]

\* RightSidebar.jsx line 200: acc[key] = (acc[key] || 0) + 1
AccBump(acc, key) ==
  [k \in DOMAIN acc \cup {key} |->
     IF k = key THEN (IF k \in DOMAIN acc THEN acc[k] ELSE 0) + 1 ELSE acc[k]]

\* RightSidebar.jsx lines 195-205, when no IOC makes it throw
RECURSIVE summariseIocs(_)
summariseIocs(iocs) ==
  IF iocs = <<>> THEN SummaryStart
  ELSE LET acc == summariseIocs(SubSeq(iocs, 1, Len(iocs) - 1))
           key == SummaryKey(iocs[Len(iocs)])
       IN IF OrElse(key, Null) = Null THEN acc ELSE AccBump(acc, key)

ApplySummariseIocs ==
  /\ aggOut = NoOutput
  /\ aggOut' = IF \E i \in DOMAIN aggIn.iocs : SummaryThrows(aggIn.iocs[i])
               THEN Threw("summariseIocs", "TypeError")
               ELSE Returned("summariseIocs", summariseIocs(aggIn.iocs))
  /\ UNCHANGED aggIn
  /\ UNCHANGED outsideAgg

\* RightSidebar.jsx line 210: item?.risk?.level
RiskLevel(item) ==
  IF item.risk.kind = "undefined" THEN Null ELSE item.risk.level

\* Mutant: only Critical items are headlines.
IsHighRisk_CriticalOnly(item) == RiskLevel(item) = "Critical"

\* RightSidebar.jsx line 211: level === 'Critical' || level === 'High'
IsHighRisk(item) == RiskLevel(item) = "Critical" \/ RiskLevel(item) = "High"

\* The source keeps the first 4 headlines (slice(0, 4)); the model scales
\* that down so that inputs with more headlines than are kept are reachable.
TopHeadlines == 2

\* RightSidebar.jsx lines 207-214
extractHighRiskHeadlines(feeds) ==
  Take(SelectSeq(feeds, IsHighRisk), TopHeadlines)

ApplyExtractHighRiskHeadlines ==
  /\ aggOut = NoOutput
  /\ aggOut' = Returned("extractHighRiskHeadlines",
                        extractHighRiskHeadlines(aggIn.feeds))
  /\ UNCHANGED aggIn
  /\ UNCHANGED outsideAgg

\* The risks feed items carry, and the items that carry them (told apart by
\* their source).
Risk(level) == [kind |-> "object", level |-> level]

Risks == {NoRisk, Risk("Critical"), Risk("High"), Risk("critical")}

RiskItems ==
  {[Blank EXCEPT !.source = src, !.risk = r] : src \in {"CSO", "Krebs"}, r \in Risks}

\* Text is kept as its sequence of characters.
UpperCase ==
  <<"A", "B", "C", "D", "E", "F", "G", "H", "I", "J", "K", "L", "M",
    "N", "O", "P", "Q", "R", "S", "T", "U", "V", "W", "X", "Y", "Z">>

LowerCase ==
  <<"a", "b", "c", "d", "e", "f", "g", "h", "i", "j", "k", "l", "m",
    "n", "o", "p", "q", "r", "s", "t", "u", "v", "w", "x", "y", "z">>

Digits == {"0", "1", "2", "3", "4", "5", "6", "7", "8", "9"}

Whitespace == {" ", "\t", "\n"}

Range(seq) == {seq[i] : i \in DOMAIN seq}

UpperLetters == Range(UpperCase)

LowerLetters == Range(LowerCase)

\* The characters the pattern [a-z0-9\s] with the i flag matches
KeptChars == LowerLetters \cup UpperLetters \cup Digits \cup Whitespace

\* String.prototype.toLowerCase
LowerChar(c) ==
  IF c \in UpperLetters
  THEN LowerCase[CHOOSE i \in DOMAIN UpperCase : UpperCase[i] = c]
  ELSE c

ToLowerCase(text) == [i \in DOMAIN text |-> LowerChar(text[i])]

\* RightSidebar.jsx lines 144-164
STOP_WORDS ==
  {<<"t", "h", "e">>,
   <<"w", "i", "t", "h">>,
   <<"f", "r", "o", "m">>,
   <<"a", "b", "o", "u", "t">>,
   <<"a", "l", "e", "r", "t">>,
   <<"r", "e", "p", "o", "r", "t">>,
   <<"a", "t", "t", "a", "c", "k">>,
   <<"a", "f", "t", "e", "r">>,
   <<"o", "v", "e", "r">>,
   <<"u", "n", "d", "e", "r">>,
   <<"t", "h", "e", "i", "r">>,
   <<"w", "i", "l", "l">>,
   <<"c", "o", "u", "l", "d">>,
   <<"i", "n", "t", "o">>,
   <<"u", "s", "e", "r", "s">>,
   <<"c", "y", "b", "e", "r">>,
   <<"s", "e", "c", "u", "r", "i", "t", "y">>,
   <<"t", "h", "r", "e", "a", "t">>,
   <<"n", "e", "w", "s">>}

\* A title or description that is a string
Text(chars) == [kind |-> "string", chars |-> chars]

\* Array.prototype.join renders undefined and null as the empty string and
\* any other value as its string
JoinPart(v) == IF v.kind = "undefined" THEN <<>> ELSE v.chars

\* RightSidebar.jsx line 181: [item?.title, item?.description].join(' ')
Joined(item) == JoinPart(item.title) \o <<" ">> \o JoinPart(item.description)

\* RightSidebar.jsx line 183: .replace(/[^a-z0-9\s]/gi, ' ')
Scrub(text) ==
  [i \in DOMAIN text |->
     IF text[i] \in KeptChars THEN text[i] ELSE " "]

\* RightSidebar.jsx line 184: .split(/\s+/), empty pieces included
RECURSIVE Split(_)
Split(text) ==
  IF \A i \in DOMAIN text : text[i] \notin Whitespace THEN <<text>>
  ELSE LET i == CHOOSE a \in DOMAIN text :
                  /\ text[a] \in Whitespace
                  /\ \A b \in 1..(a - 1) : text[b] \notin Whitespace
           j == CHOOSE a \in i..Len(text) :
                  /\ \A b \in i..a : text[b] \in Whitespace
                  /\ a = Len(text) \/ text[a + 1] \notin Whitespace
       IN <<SubSeq(text, 1, i - 1)>> \o Split(SubSeq(text, j + 1, Len(text)))

\* Mutant: stop words are counted too.
TopicTokens_NoStopWords(item) ==
  SelectSeq(Split(Scrub(ToLowerCase(Joined(item)))), LAMBDA t : Len(t) > 5)

\* RightSidebar.jsx lines 181-185: the tokens of one item that are counted
TopicTokens(item) ==
  SelectSeq(Split(Scrub(ToLowerCase(Joined(item)))),
            LAMBDA t : Len(t) > 5 /\ t \notin STOP_WORDS)

\* RightSidebar.jsx lines 186-188
RECURSIVE BumpAll(_, _)
BumpAll(bucket, tokens) ==
  IF tokens = <<>> THEN bucket
  ELSE BumpAll(Bump(bucket, Head(tokens)), Tail(tokens))

\* RightSidebar.jsx lines 180-189
RECURSIVE TallyTopics(_)
TallyTopics(feeds) ==
  IF feeds = <<>> THEN <<>>
  ELSE BumpAll(TallyTopics(SubSeq(feeds, 1, Len(feeds) - 1)),
               TopicTokens(feeds[Len(feeds)]))

\* The source keeps the 6 busiest topics (slice(0, 6)); the model scales
\* that down so that inputs with more topics than are kept are reachable.
TopTopics == 2

\* RightSidebar.jsx lines 178-193: the entries [token, count]
buildTopicList(feeds) ==
  LET top == Take(SortByCount(TallyTopics(feeds)), TopTopics)
  IN [i \in DOMAIN top |-> <<top[i].name, top[i].count>>]

ApplyBuildTopicList ==
  /\ aggOut = NoOutput
  /\ aggOut' = Returned("buildTopicList", buildTopicList(aggIn.feeds))
  /\ UNCHANGED aggIn
  /\ UNCHANGED outsideAgg

\* The titles and descriptions feed items carry.
\* "Ransomware Attack!"
RansomwareAttack ==
  Text(<<"R", "a", "n", "s", "o", "m", "w", "a", "r", "e", " ", "A",
         "t", "t", "a", "c", "k", "!">>)

\* "Botnet-Exploit news"
BotnetExploitNews ==
  Text(<<"B", "o", "t", "n", "e", "t", "-", "E", "x", "p", "l", "o",
         "i", "t", " ", "n", "e", "w", "s">>)

\* "ransomware botnet"
RansomwareBotnet ==
  Text(<<"r", "a", "n", "s", "o", "m", "w", "a", "r", "e", " ", "b",
         "o", "t", "n", "e", "t">>)

\* "EXPLOIT: Ransomware hits users"
ExploitHitsUsers ==
  Text(<<"E", "X", "P", "L", "O", "I", "T", ":", " ", "R", "a", "n",
         "s", "o", "m", "w", "a", "r", "e", " ", "h", "i", "t", "s",
         " ", "u", "s", "e", "r", "s">>)

\* A title that is a number
SevenText == [kind |-> "number", chars |-> <<"7">>]

TopicItems ==
  {[Blank EXCEPT !.title = RansomwareAttack],
   [Blank EXCEPT !.title = BotnetExploitNews, !.description = ExploitHitsUsers],
   [Blank EXCEPT !.title = RansomwareBotnet],
   [Blank EXCEPT !.description = ExploitHitsUsers],
   [Blank EXCEPT !.title = SevenText, !.description = RansomwareBotnet],
   Blank}

ApplyGroupByDate ==
  /\ aggOut = NoOutput
  /\ aggOut' = IF \E i \in DOMAIN aggIn.feeds : DateThrows(aggIn.feeds[i])
               THEN Threw("groupByDate", "RangeError")
               ELSE Returned("groupByDate", groupByDate(aggIn.feeds, aggIn.now))
  /\ UNCHANGED aggIn
  /\ UNCHANGED outsideAgg

\* The date fields feed items carry: both, one, none, one that is empty and
\* one that does not parse.
DatedItems ==
  {[Blank EXCEPT !.published_at = "2024-03-01T10:00:00Z",
                 !.fetched_at = "2024-03-03T00:00:00Z"],
   [Blank EXCEPT !.fetched_at = "2024-03-01T23:30:00-05:00"],
   [Blank EXCEPT !.published_at = "2024-03-02"],
   [Blank EXCEPT !.published_at = "",
                 !.fetched_at = "2024-03-04T08:00:00+09:00"],
   Blank,
   [Blank EXCEPT !.published_at = "yesterday"]}

AggInit ==
  /\ StoreIdle
  /\ storageId = Null
  /\ sites = NoSites
  /\ DeskIdle
  /\ \/ \E f \in SeqsUpTo(Sources, MaxItems) :
          aggIn = [feeds |-> [i \in DOMAIN f |-> [Blank EXCEPT !.source = f[i]]],
                   iocs |-> <<>>, now |-> 4]
     \/ \E t \in SeqsUpTo(Types, MaxItems) :
          aggIn = [feeds |-> <<>>,
                   iocs |-> [i \in DOMAIN t |-> [type |-> t[i]]], now |-> 4]
     \/ \E f \in SeqsUpTo(DatedItems, MaxItems), today \in Todays :
          aggIn = [feeds |-> f, iocs |-> <<>>, now |-> today]
     \/ \E f \in SeqsUpTo(RiskItems, MaxItems) :
          aggIn = [feeds |-> f, iocs |-> <<>>, now |-> 4]
     \/ \E f \in SeqsUpTo(TopicItems, MaxItems) :
          aggIn = [feeds |-> f, iocs |-> <<>>, now |-> 4]
  /\ aggOut = NoOutput

AggNext ==
  \/ ApplyGroupBySource
  \/ ApplyCalcIocHeatmap
  \/ ApplyGroupByDate
  \/ ApplySummariseIocs
  \/ ApplyExtractHighRiskHeadlines
  \/ ApplyBuildTopicList

AggSpec == AggInit /\ [][AggNext]_vars

\* ------------------------------------------------------------- claims
\* `saved` right after the optimistic update of the toggle that issued r.
AfterOptimistic(r) ==
  IF r.kind = "DELETE" THEN OptimisticRemove(r.previous, r.link)
  ELSE OptimisticAdd(r.previous, r.link)

\* The step settles r and runs the catch block of toggleSaved.
RolledBack(r) ==
  \/ \E o \in AllOutcomes : InsertThrows(o) /\ SettleInsert(r, o)
  \/ \E o \in AllOutcomes : DeleteThrows(o) /\ SettleDelete(r, o)

Count(s, l) == Cardinality({i \in DOMAIN s : s[i].link = l})

OnServer(l) == \E i \in DOMAIN server : server[i] = l

\* C1: toggleSaved on a link that is not saved, with nothing else going on:
\* isSaved(link) is true from the optimistic update on, while the insert is
\* in flight and after it settles successfully.
C1_OptimisticAddVisible ==
  (run.n = 1 /\ ~run.orig) => isSaved(saved, run.link)

C1_Witness ==
  /\ run.n = 1 /\ ~run.orig /\ reqs = {}
  /\ OnServer(run.link)
  /\ isSaved(saved, run.link)

\* C2: when the insert of a toggleSaved fails (fetch rejects or the response
\* is non-2xx), saved is the snapshot taken when that call started, the cache
\* is rewritten from it, isSaved(link) has its pre-call value, and error is
\* set.
C2_FailedInsertRollsBack ==
  [][\A r \in reqs, o \in {"reject", "non2xx"} :
       SettleInsert(r, o)
       => /\ saved' = r.previous
          /\ cacheStore' = [raw |-> "array", items |-> Take(r.previous, Cap)]
          /\ isSaved(saved', r.link) = isSaved(r.previous, r.link)
          /\ error' # Null]_vars

\* The insert was answered non-2xx and the snapshot restored is a full list:
\* the entry the optimistic prepend had pushed out is back.
C2_Witness ==
  /\ error = "Failed to save briefing"
  /\ reqs = {}
  /\ Len(saved) = Cap
  /\ \E l \in Links : ~isSaved(saved, l) /\ ~OnServer(l)

\* C3: when the delete of a toggleSaved fails (fetch rejects or the server
\* answers non-2xx), the link is saved again once the call settles and error
\* is set.
C3_FailedDeleteRollsBack ==
  [][\A r \in reqs, o \in {"reject", "non2xx"} :
       SettleDelete(r, o) => (isSaved(saved', r.link) /\ error' # Null)]_vars

\* C4: saved never holds two entries with the same link (server lists and the
\* initial cache hold none).
C4_NoDuplicateLinks == NoDup(saved)

\* Two toggles on one link overlap: its insert and its delete are in flight.
C4_Witness ==
  /\ \E r1, r2 \in reqs :
       r1.kind = "POST" /\ r2.kind = "DELETE" /\ r1.link = r2.link
  /\ Len(saved) >= 1

\* C5: toggles on one link made in sequence, each settling successfully
\* before the next: after two the link has its original status, and after
\* save, unsave, save exactly one entry holds the link.
C5_SequentialTogglesAlternate ==
  (run.n > 0 /\ reqs = {})
  => /\ isSaved(saved, run.link) = (IF run.n % 2 = 0 THEN run.orig ELSE ~run.orig)
     /\ Count(saved, run.link) <= 1
     /\ (run.n = 3 /\ ~run.orig) => Count(saved, run.link) = 1

C5_Witness ==
  /\ run.n = 3 /\ ~run.orig /\ reqs = {}
  /\ Count(saved, run.link) = 1

\* C6: the rollback of a failed toggleSaved on link A leaves every other link
\* B, whose membership changed between A's optimistic update and A's
\* settlement, as it was just before the rollback.
C6_RollbackKeepsOtherLinks ==
  [][\A r \in reqs :
       RolledBack(r)
       => \A b \in Links \ {r.link} :
            (isSaved(AfterOptimistic(r), b) # isSaved(saved, b))
            => (isSaved(saved', b) = isSaved(saved, b))]_vars

\* C7: while an add is pending, no step other than the user's own toggle of
\* that link makes isSaved(link) false; isSaved(link) is true right after the
\* optimistic prepend, so it is true throughout.
C7_PendingAddStaysVisible ==
  [][\A r \in reqs :
       (/\ r.kind = "POST"
        /\ \E q \in reqs' : q.id = r.id /\ q.kind = "POST" /\ q.link = r.link
        /\ isSaved(saved, r.link)
        /\ ~ToggleSaved(r.link))
       => isSaved(saved', r.link)]_vars

\* C8: a refresh answered with an items list makes saved that list, in the
\* server's order, and the cache its first Cap entries.
C8_RefreshReplaces ==
  [][\A r \in reqs :
       SettleFetch(r, "ok")
       => /\ saved' = r.items
          /\ cacheStore' = [raw |-> "array", items |-> Take(r.items, Cap)]]_vars

\* A refresh has brought in a list longer than the cap: the cache is its
\* prefix.
C8_Witness ==
  /\ phase = "ready" /\ ~loading /\ error = Null
  /\ Len(saved) > Cap
  /\ saved = ServerItems(server)
  /\ cacheStore.items = Take(saved, Cap)

\* C9: a refresh that fails (fetch rejects, the body cannot be parsed, or the
\* response carries no items list) leaves saved as it was and sets error.
C9_FailedRefreshKeepsSaved ==
  [][\A r \in reqs, o \in {"reject", "badBody", "okEmpty", "non2xx"} :
       SettleFetch(r, o) => (saved' = saved /\ error' # Null)]_vars

\* C10: with no request in flight, every link held locally (in saved and in
\* the cache) is in the server's set.
C10_LocalSubsetOfServer ==
  (phase = "ready" /\ reqs = {})
  => /\ \A l \in LinksOf(saved) : OnServer(l)
     /\ \A l \in LinksOf(loadSavedCache(cacheStore)) : OnServer(l)

\* The clientId of the render whose callbacks the page holds: null until the
\* render that follows the mount effect (lines 20 and 48).
ClosureClientId == IF phase = "ready" THEN clientId ELSE Null

\* C11: a toggleSaved call made while clientId is null or with a missing
\* link changes neither saved, the cache, error nor loading, and issues no
\* request.
C11_GuardedToggleIsNoop ==
  [][\A l \in Links \cup {NoLink} :
       (/\ ToggleSaved(l) \/ ToggleNoop(l)
        /\ ClosureClientId = Null \/ l = NoLink)
       => UNCHANGED <<saved, cacheStore, error, loading, reqs>>]_vars

\* toggleSaved was called before the mount effect ran: nothing has moved.
C11_Witness ==
  /\ phase = "unmounted" /\ nCalls = 1
  /\ saved = <<>> /\ reqs = {} /\ loading /\ error = Null

\* C12: every change toggleSaved makes to saved (optimistic add or remove,
\* server confirmation, rollback) leaves at most Cap entries in it.
C12_ToggleKeepsCap ==
  [][(/\ saved' # saved
      /\ \/ \E l \in Links : ToggleSaved(l)
         \/ \E r \in reqs, o \in AllOutcomes :
              SettleInsert(r, o) \/ SettleDelete(r, o))
     => Len(saved') <= Cap]_vars

\* C13: the cache never holds more than Cap entries, and once a change to
\* saved has been committed the cache is the first Cap entries of saved.
C13_CacheMirrorsSaved ==
  /\ Len(cacheStore.items) <= Cap
  /\ phase = "ready"
     => (cacheStore.raw = "array" /\ cacheStore.items = Take(saved, Cap))

\* A rollback has restored a list longer than the cap: the cache holds its
\* first Cap entries.
C13_Witness ==
  /\ phase = "ready" /\ reqs = {} /\ nCalls >= 2
  /\ error = "Failed to fetch"
  /\ Len(saved) > Cap
  /\ Len(cacheStore.items) = Cap

\* C14: at initialization a non-empty cache becomes saved before any request
\* is issued; the refresh is issued by the commit that follows, with the
\* hydrated list in place and clientId resolved; no request is ever issued or
\* in flight while clientId is null.
C14_HydrateThenRefresh ==
  [][/\ Mount
        => /\ reqs' = {}
           /\ Len(loadSavedCache(cacheStore)) > 0
              => saved' = loadSavedCache(cacheStore)
     /\ MountCommit
        => /\ saved' = saved
           /\ clientId # Null
           /\ \E q \in reqs' : q.kind = "GET" /\ q.stage = "sent"
     /\ reqs' # {} => (clientId' # Null /\ phase' = "ready")]_vars

\* The hydrated list is shown while the first GET is on its way.
C14_Witness ==
  /\ phase = "ready" /\ nCalls = 1
  /\ Len(saved) > 0
  /\ \E r \in reqs : r.kind = "GET" /\ r.stage = "sent"

\* C15: a call of ensureClientId that finds a token persisted returns that
\* token and leaves storage unchanged; storage is written only by a call that
\* found no token.
C15_EnsureClientIdIdempotent ==
  [][\A c \in Contexts :
       /\ IdRead(c) => sites'[c].value = storageId
       /\ IdReturn(c)
          => /\ sites[c].value # Null
                => (sites'[c].ret = sites[c].value /\ storageId' = storageId)
             /\ storageId' # storageId => sites[c].value = Null
             /\ sites'[c].ret # Null]_vars

\* One context generated the token, a later call of another context found it
\* and returned it.
C15_Witness ==
  \E c1, c2 \in Contexts :
    /\ sites[c1].pc = "done" /\ sites[c1].value = Null
    /\ sites[c2].pc = "done" /\ sites[c2].value # Null
    /\ sites[c2].ret = sites[c1].ret
    /\ storageId = sites[c1].ret

\* C16: however the ensureClientId calls of several contexts interleave, all
\* of them return the same token, and it is the token left in storage.
C16_NoDivergentTokens ==
  \A c1, c2 \in Contexts :
    (sites[c1].pc = "done" /\ sites[c2].pc = "done")
    => (sites[c1].ret = sites[c2].ret /\ sites[c1].ret = storageId)

\* C17: once a polling view is torn down, its data, error and loading state
\* no longer change and no load is issued.
C17_NothingAfterTeardown ==
  [][view.life = "gone"
     => /\ view'.data = view.data
        /\ view'.error = view.error
        /\ view'.loading = view.loading
        /\ \A q \in loads' : \E r \in loads : r.id = q.id /\ r.kind = q.kind]_vars

\* C18: the results proxy always answers with status 200; when the backend
\* is unreachable, times out or answers non-2xx the payload has empty feeds,
\* iocs and clusters and a non-empty error string.
C18_ProxyAlwaysAnswers200 ==
  \A r \in loads :
    r.stage = "answered"
    => /\ r.resp.status = 200
       /\ r.backend \in {"non2xx", "unreachable", "timeout"}
          => /\ r.resp.body.feeds = <<>>
             /\ r.resp.body.iocs = <<>>
             /\ r.resp.body.clusters = <<>>
             /\ r.resp.body.error \notin {Null, ""}

\* route.js has aborted a request the backend did not answer in time.
C18_Witness ==
  \E r \in loads :
    /\ r.stage = "answered" /\ r.backend = "timeout"
    /\ env.version = "route"
    /\ r.resp = Response(200, EmptyPayload("Backend is taking too long to respond."))

\* The number of items of a collection whose key is `name`, and where the
\* first of them stands.
Occurrences(items, Key(_), name) ==
  Cardinality({i \in DOMAIN items : Key(items[i]) = name})

FirstSeen(items, Key(_), name) ==
  CHOOSE i \in DOMAIN items :
    Key(items[i]) = name /\ \A j \in 1..(i - 1) : Key(items[j]) # name

\* What a source name is once lower-cased, "unknown" standing for a missing
\* one (stated apart from SourceKey).
NormalSource(item) ==
  IF item.source \in {Null, ""} THEN "unknown" ELSE Lower(item.source)

NormalType(ioc) == IF ioc.type \in {Null, ""} THEN "other" ELSE Lower(ioc.type)

\* C19: groupBySource returns at most TopSources entries, by count
\* descending with ties in first-seen order; each count is the number of items
\* whose lower-cased source (unknown when missing) is the entry's name, and no
\* source busier than a returned one is left out.
C19_GroupBySource ==
  aggOut.fn = "groupBySource" /\ aggOut.threw = Null
  => LET in == aggIn.feeds
         out == aggOut.value
         names == {NormalSource(in[i]) : i \in DOMAIN in}
     IN /\ Len(out) <= TopSources
        /\ Len(out) = IF Cardinality(names) < TopSources
                      THEN Cardinality(names) ELSE TopSources
        /\ \A i \in DOMAIN out :
             /\ out[i].name \in names
             /\ out[i].count = Occurrences(in, NormalSource, out[i].name)
        /\ \A i, j \in DOMAIN out :
             i < j => \/ out[i].count > out[j].count
                      \/ /\ out[i].count = out[j].count
                         /\ FirstSeen(in, NormalSource, out[i].name)
                              < FirstSeen(in, NormalSource, out[j].name)
        /\ \A n \in names :
             (\A i \in DOMAIN out : out[i].name # n)
             => \A i \in DOMAIN out :
                  Occurrences(in, NormalSource, n) <= out[i].count

\* The scenario of the specification: ThreatPost, threatpost, CSO.
C19_Witness ==
  /\ [i \in DOMAIN aggIn.feeds |-> aggIn.feeds[i].source]
       = <<"ThreatPost", "threatpost", "CSO">>
  /\ aggOut = Returned("groupBySource",
                       <<[name |-> "threatpost", count |-> 2],
                         [name |-> "cso", count |-> 1]>>)

\* C20: calcIocHeatmap returns exactly the entries domain, ip, cve, hash in
\* that order, each counting the IOCs whose lower-cased type is its name;
\* IOCs of a missing or other type count nowhere.
C20_IocHeatmap ==
  aggOut.fn = "calcIocHeatmap" /\ aggOut.threw = Null
  => LET in == aggIn.iocs
         out == aggOut.value
     IN /\ Len(out) = 4
        /\ <<out[1].name, out[2].name, out[3].name, out[4].name>>
             = <<"domain", "ip", "cve", "hash">>
        /\ \A i \in DOMAIN out :
             out[i].count = Occurrences(in, NormalType, out[i].name)

\* The scenario of the specification: IP, ip, CVE.
C20_Witness ==
  /\ aggIn.iocs = <<[type |-> "IP"], [type |-> "ip"], [type |-> "CVE"]>>
  /\ aggOut = Returned("calcIocHeatmap",
                       <<[name |-> "domain", count |-> 0],
                         [name |-> "ip", count |-> 2],
                         [name |-> "cve", count |-> 1],
                         [name |-> "hash", count |-> 0]>>)

\* The date an item carries, published_at before fetched_at, and whether it
\* denotes an instant (stated apart from DayKey).
CarriedDate(item) ==
  IF item.published_at \notin {Null, ""} THEN item.published_at
  ELSE item.fetched_at

ValidDate(item) ==
  CarriedDate(item) \notin {Null, ""} /\ UtcDay(CarriedDate(item)) # InvalidDate

\* The items of a collection that fall on UTC day d.
OnDay(items, d) ==
  {i \in DOMAIN items : ValidDate(items[i]) /\ UtcDay(CarriedDate(items[i])) = d}

\* C21: for feeds whose items carry valid dates, groupByDate returns at most
\* TopDays buckets, strictly descending by date; they are the most recent UTC
\* days that occur in the input, each with the number of items on that day.
C21_GroupByDate ==
  (aggOut.fn = "groupByDate"
     /\ \A i \in DOMAIN aggIn.feeds : ValidDate(aggIn.feeds[i]))
  => LET in == aggIn.feeds
         out == aggOut.value
         days == {UtcDay(CarriedDate(in[i])) : i \in DOMAIN in}
     IN /\ aggOut.threw = Null
        /\ Len(out) <= TopDays
        /\ Len(out) = IF Cardinality(days) < TopDays
                      THEN Cardinality(days) ELSE TopDays
        /\ \A i, j \in DOMAIN out : i < j => out[i].date > out[j].date
        /\ \A i \in DOMAIN out :
             /\ out[i].date \in days
             /\ out[i].count = Cardinality(OnDay(in, out[i].date))
             /\ out[i].count > 0
        /\ \A d \in days :
             (\A i \in DOMAIN out : out[i].date # d)
             => \A i \in DOMAIN out : d < out[i].date

\* Three days occur, one of them through fetched_at and a UTC offset; the
\* two most recent are kept.
C21_Witness ==
  /\ aggOut.fn = "groupByDate"
  /\ Len(aggIn.feeds) = 4
  /\ \A i \in DOMAIN aggIn.feeds : ValidDate(aggIn.feeds[i])
  /\ \E i \in DOMAIN aggIn.feeds :
       aggIn.feeds[i].fetched_at = "2024-03-01T23:30:00-05:00"
  /\ aggOut.value = <<[date |-> 3, count |-> 1], [date |-> 2, count |-> 2]>>

\* C22: groupByDate never throws, and an item without a date or with a date
\* that does not parse is counted in the bucket of the current UTC day.
C22_UndatedCountsToday ==
  aggOut.fn = "groupByDate"
  => LET in == aggIn.feeds
         undated == {i \in DOMAIN in : ~ValidDate(in[i])}
     IN /\ aggOut.threw = Null
        /\ undated # {}
           => \E k \in DOMAIN aggOut.value :
                /\ aggOut.value[k].date = aggIn.now
                /\ aggOut.value[k].count
                     = Cardinality(undated) + Cardinality(OnDay(in, aggIn.now))

\* C24: summariseIocs returns an object whose only keys are ip, domain and
\* cve, each holding the number of IOCs of that lower-cased type; IOCs of
\* another type are accumulated under no key.
C24_SummaryKeys ==
  aggOut.fn = "summariseIocs" /\ aggOut.threw = Null
  => /\ DOMAIN aggOut.value = {"ip", "domain", "cve"}
     /\ \A k \in {"ip", "domain", "cve"} :
          aggOut.value[k] = Occurrences(aggIn.iocs, NormalType, k)

\* The positions of the items whose risk level is exactly Critical or High
\* (stated apart from IsHighRisk), and the k-th of them.
Qualifying(items) ==
  {i \in DOMAIN items :
     /\ items[i].risk.kind = "object"
     /\ items[i].risk.level \in {"Critical", "High"}}

Kth(S, k) == CHOOSE i \in S : Cardinality({j \in S : j < i}) = k - 1

\* C26: extractHighRiskHeadlines returns the first TopHeadlines (or fewer)
\* items, in input order, whose risk level is exactly Critical or High.
C26_FirstHighRisk ==
  aggOut.fn = "extractHighRiskHeadlines"
  => LET in == aggIn.feeds
         out == aggOut.value
         q == Qualifying(in)
     IN /\ aggOut.threw = Null
        /\ Len(out) = IF Cardinality(q) < TopHeadlines
                      THEN Cardinality(q) ELSE TopHeadlines
        /\ \A k \in DOMAIN out : out[k] = in[Kth(q, k)]

\* Four items, among them one without a risk or with a differently-cased
\* level ahead of the kept ones, and more qualifying items than are kept.
C26_Witness ==
  /\ aggOut.fn = "extractHighRiskHeadlines"
  /\ Len(aggIn.feeds) = 4
  /\ Cardinality(Qualifying(aggIn.feeds)) = 3
  /\ aggIn.feeds[1].risk = Risk("critical")
  /\ aggIn.feeds[2].risk = Risk("High")
  /\ aggIn.feeds[2].source # aggIn.feeds[3].source
  /\ aggOut.value = <<aggIn.feeds[2], aggIn.feeds[3]>>

\* The words of a text: its maximal runs of ASCII letters and digits, each
\* named by where it starts (stated apart from Scrub and Split).
Alnum == LowerLetters \cup UpperLetters \cup Digits

IsAlnum(c) == c \in Alnum

WordStarts(text) ==
  {a \in DOMAIN text : IsAlnum(text[a]) /\ (a = 1 \/ ~IsAlnum(text[a - 1]))}

WordEnd(text, a) ==
  CHOOSE z \in a..Len(text) :
    /\ \A b \in a..z : IsAlnum(text[b])
    /\ z = Len(text) \/ ~IsAlnum(text[z + 1])

FoldedWord(text, a) == ToLowerCase(SubSeq(text, a, WordEnd(text, a)))

\* The title and the description of an item as text.
FieldTexts(item) == <<JoinPart(item.title), JoinPart(item.description)>>

\* Where the folded word w occurs in the titles and descriptions of items.
WordOccurrences(items, w) ==
  UNION {LET text == FieldTexts(items[i])[f]
         IN {<<i, f, a>> : a \in {b \in WordStarts(text) :
                                    FoldedWord(text, b) = w}} :
         i \in DOMAIN items, f \in {1, 2}}

\* The words that can be topics: at least 6 characters, not a stop word.
Topics(items) ==
  {w \in UNION {{FoldedWord(FieldTexts(items[i])[f], a) :
                   a \in WordStarts(FieldTexts(items[i])[f])} :
                 i \in DOMAIN items, f \in {1, 2}} :
     Len(w) >= 6 /\ w \notin STOP_WORDS}

\* C25: buildTopicList returns at most TopTopics pairs by count descending;
\* each topic is a case-folded alphanumeric word of at least 6 characters
\* that is no stop word, counted over all titles and descriptions, and no
\* word that occurs more often than a returned one is left out.
C25_TopicList ==
  aggOut.fn = "buildTopicList"
  => LET in == aggIn.feeds
         out == aggOut.value
         topics == Topics(in)
     IN /\ aggOut.threw = Null
        /\ Len(out) <= TopTopics
        /\ Len(out) = IF Cardinality(topics) < TopTopics
                      THEN Cardinality(topics) ELSE TopTopics
        /\ \A i \in DOMAIN out :
             /\ out[i][1] \in topics
             /\ Len(out[i][1]) >= 6
             /\ out[i][1] \notin STOP_WORDS
             /\ \A k \in DOMAIN out[i][1] :
                  out[i][1][k] \in LowerLetters \cup Digits
             /\ out[i][2] = Cardinality(WordOccurrences(in, out[i][1]))
        /\ \A i, j \in DOMAIN out :
             i < j => out[i][2] >= out[j][2] /\ out[i][1] # out[j][1]
        /\ \A w \in topics :
             (\A i \in DOMAIN out : out[i][1] # w)
             => \A i \in DOMAIN out :
                  Cardinality(WordOccurrences(in, w)) <= out[i][2]

\* Three topics occur besides a stop word of 6 characters; the two busiest
\* are kept, one of them met in upper case and in a description.
C25_Witness ==
  /\ aggOut.fn = "buildTopicList"
  /\ [i \in DOMAIN aggIn.feeds |-> aggIn.feeds[i].title]
       = <<RansomwareAttack, BotnetExploitNews>>
  /\ aggIn.feeds[2].description = ExploitHitsUsers
  /\ aggOut.value = <<<<FoldedWord(RansomwareAttack.chars, 1), 2>>,
                      <<FoldedWord(ExploitHitsUsers.chars, 1), 2>>>>

\* C23: groupBySource, calcIocHeatmap, summariseIocs, buildTopicList and
\* extractHighRiskHeadlines return without throwing for every input, fields
\* that are missing or of the wrong type included.
C23_AggregationsTotal ==
  aggOut.fn \in {"groupBySource", "calcIocHeatmap", "summariseIocs",
                 "buildTopicList", "extractHighRiskHeadlines"}
  => aggOut.threw = Null

\* The load ends in a failure of the transport: the fetch rejects, the
\* answer is non-2xx, or the proxy reports the backend's failure in the
\* payload's error field.
TransportFailure(r, how) ==
  \/ how \in {"reject", "non2xx"}
  \/ how = "response" /\ r.resp.body.error \notin {Null, ""}

\* C27: when a results load of the Dashboard fails through the transport, the
\* data loaded before is still held and error is set to a message.
C27_DashboardKeepsData ==
  [][\A r \in loads, how \in LoadEnds :
       (/\ LoadSettle(r, how)
        /\ view.kind = "Dashboard" /\ view.life = "alive"
        /\ view.data.feeds # <<>>
        /\ TransportFailure(r, how))
       => (/\ view'.data.feeds = view.data.feeds
           /\ view'.data.iocs = view.data.iocs
           /\ view'.error \notin {Null, ""})]_vars

\* C28: the confirmation of an insert that arrives after a later toggle has
\* optimistically removed the link (its delete is in flight) does not bring
\* the link back, neither into saved nor into the cache.
C28_LateConfirmationStaysRemoved ==
  [][\A r \in reqs :
       (/\ SettleInsert(r, "ok")
        /\ ~isSaved(saved, r.link)
        /\ \E d \in reqs : /\ d.kind = "DELETE" /\ d.link = r.link
                            /\ isSaved(d.previous, r.link))
       => (/\ ~isSaved(saved', r.link)
           /\ r.link \notin LinksOf(loadSavedCache(cacheStore')))]_vars

\* The load got the backend's payload: a 200 answer that reports no error.
Succeeded(r, how) ==
  how = "response" /\ r.resp.status = 200 /\ r.resp.body.error \in {Null, ""}

\* C29: in the IntelDesk view, after a load succeeds error is null, even if
\* an earlier load had failed.
C29_SuccessClearsError ==
  [][\A r \in loads, how \in LoadEnds :
       (/\ LoadSettle(r, how)
        /\ view.kind = "IntelDesk" /\ view.life = "alive"
        /\ Succeeded(r, how))
       => view'.error = Null]_vars

\* C30: from mount to the first refresh response, with no user action, no
\* step takes an entry out of the persisted cache.
C30_MountKeepsCache ==
  [][(Mount \/ MountCommit \/ (nCalls <= 1 /\ \E r \in reqs : ServerProcess(r)))
     => LinksOf(loadSavedCache(cacheStore))
          \subseteq LinksOf(loadSavedCache(cacheStore'))]_vars

====
